---- MODULE Spec2Model ----
(***************************************************************************)
(* ModelWrapper (edc_model_wrapper/wrappers/model_wrapper.py).             *)
(*                                                                         *)
(* The program state is the set of model objects (their `wrapped` flag and *)
(* `save` attribute), mutated in place by ModelWrapper.__init__.  The      *)
(* constructor is one action; its arguments, the exception it ended with   *)
(* and the wrapper it produced are kept in `call`, `raised` and `wrapper`  *)
(* until the wrapper is released.                                          *)
(*                                                                         *)
(* Representation of Python values:                                        *)
(*   - names, urls, labels, classes : strings; None is the string "None",  *)
(*     which is also what an f-string makes of None                        *)
(*   - lists (url attrs)            : sequences of strings                 *)
(*   - text (href, querystring, attribute values) : sequences of tokens,   *)
(*     f-string interpolation and str.join being concatenation             *)
(*   - an optional record           : a sequence of length 0 or 1          *)
(* Extra kwargs and model field names range over ordinary names, the       *)
(* read-only properties of the wrapper and the attributes __init__ writes  *)
(* after wrap_me_with; names of the wrapper's own configuration attributes *)
(* (object, next_url, cancel_url, next_attr, ...) are outside the input    *)
(* set.                                                                    *)
(***************************************************************************)
EXTENDS Integers, Sequences, FiniteSets, TLC

VARIABLES objects, call, raised, wrapper, succeeded, strictRegistry

vars == <<objects, call, raised, wrapper, succeeded, strictRegistry>>

(* ------------------------------ bounds ------------------------------- *)

\* at most this many extra keyword arguments (**kwargs) per construction
MaxKwargs == 1

(* --------------------------- Python values --------------------------- *)

None == "None"

\* truth value of a name / url / label / class (None and "" are falsy)
Truthy(v) == v \notin {None, ""}

\* Python's `a or b` on names, urls, labels and classes
Or(a, b) == IF Truthy(a) THEN a ELSE b

\* Python's `a or b` on lists (None and [] are both falsy, both are <<>>)
OrList(a, b) == IF a # <<>> THEN a ELSE b

RECURSIVE Join(_, _)
\* sep.join(strings) on texts
Join(strings, sep) ==
    IF strings = <<>> THEN <<>>
    ELSE IF Len(strings) = 1 THEN strings[1]
    ELSE strings[1] \o <<sep>> \o Join(Tail(strings), sep)

(* --------------------- host framework environment -------------------- *)

\* two model classes, SubA a subclass of A
ModelClasses == {"A", "SubA"}

Mro == [c \in ModelClasses |-> IF c = "SubA" THEN {"SubA", "A"} ELSE {"A"}]

\* model_cls._meta.label_lower
LabelLower == [c \in ModelClasses |-> IF c = "SubA" THEN "app.suba" ELSE "app.a"]

\* model_cls._meta.object_name.lower().replace(" ", "_")
ModelName == [c \in ModelClasses |-> IF c = "SubA" THEN "suba" ELSE "a"]

\* the model instances
Objs == {"a1", "s1"}

\* model_obj.__class__
ClassOf == [o \in Objs |-> IF o = "s1" THEN "SubA" ELSE "A"]

IsInstance(o, cls) == cls \in Mro[ClassOf[o]]

\* model_obj.get_absolute_url()
AbsoluteUrl == [o \in Objs |-> IF o = "s1" THEN "/admin/app/suba/1/" ELSE "/admin/app/a/1/"]

\* model_obj.admin_url_name
AdminUrlName == [o \in Objs |-> IF o = "s1" THEN "admin:app_suba_change" ELSE "admin:app_a_change"]

\* edc_dashboard.url_names: the registered names and their urls
Registry == ("listboard_url" :> "app:listboard_url") @@ ("dashboard_url" :> "app:dashboard_url")

\* url_names.get(name).  A name the registry does not hold either raises
\* InvalidUrlName (strict registry) or yields None (dict.get).
UrlNamesGet(name, strict) ==
    IF name \in DOMAIN Registry THEN [exc |-> "", value |-> Registry[name]]
    ELSE IF strict THEN [exc |-> "InvalidUrlName", value |-> None]
    ELSE [exc |-> "", value |-> None]

(* ------------------- fields and parsers collaborators ---------------- *)

\* Fields(model_obj).get_field_values_as_strings(wrapper): the (name, value)
\* pairs of the model's fields.  a1 has a field named like a read-only
\* property of the wrapper, s1 one named like an attribute __init__ writes.
ModelFields ==
    [o \in Objs |->
        IF o = "s1"
        THEN ("subject_identifier" :> <<"S2">>) @@ ("id" :> <<"2">>) @@ ("href" :> <<"field_href">>)
        ELSE ("subject_identifier" :> <<"S1">>) @@ ("id" :> <<"1">>) @@ ("history_url" :> <<"field_history">>)]

\* value of attribute `attr` as the parsers find it: in the keyword arguments,
\* else on the wrapper, else on the model object, else empty
LookupAttr(attr, attrs, o, kwargs) ==
    IF attr \in DOMAIN kwargs THEN kwargs[attr]
    ELSE IF attr \in DOMAIN attrs THEN attrs[attr]
    ELSE IF attr \in DOMAIN ModelFields[o] THEN ModelFields[o][attr]
    ELSE <<"">>

\* Keywords(objects=[wrapper, model_obj], attrs=querystring_attrs, **kwargs):
\* the (attr, value) pairs, in order
Keywords(querystring_attrs, attrs, o, kwargs) ==
    [i \in 1..Len(querystring_attrs) |->
        <<querystring_attrs[i], LookupAttr(querystring_attrs[i], attrs, o, kwargs)>>]

\* urllib.parse.urlencode(pairs): k=v joined by "&"
Urlencode(pairs) ==
    Join([i \in 1..Len(pairs) |-> <<pairs[i][1], "=">> \o pairs[i][2]], "&")

\* NextUrlParser(url_name, url_args).querystring(objects, **kwargs):
\* "attr1,attr2&attr1=value1&attr2=value2", empty without url_args
ParserQuerystring(url_args, attrs, o, kwargs) ==
    IF url_args = <<>> THEN <<>>
    ELSE Join([i \in 1..Len(url_args) |-> <<url_args[i]>>], ",")
         \o <<"&">> \o Urlencode(Keywords(url_args, attrs, o, kwargs))

(* ------------------------- ModelWrapper class ------------------------ *)

NextAttr == "next"
CancelAttr == "cancel"

\* ModelWrapper and two subclasses that set the class attributes
WrapperClasses == {"ModelWrapper", "SubjectWrapper", "ListWrapper"}

ClassAttrs ==
    [wc \in WrapperClasses |->
        CASE wc = "ModelWrapper" ->
                [model |-> None, model_cls |-> None,
                 cancel_url_name |-> None, cancel_url_attrs |-> <<>>,
                 next_url_name |-> None, next_url_attrs |-> <<>>,
                 querystring_attrs |-> <<>>]
          [] wc = "SubjectWrapper" ->
                [model |-> "app.a", model_cls |-> None,
                 cancel_url_name |-> None, cancel_url_attrs |-> <<"id">>,
                 next_url_name |-> "dashboard_url", next_url_attrs |-> <<"id">>,
                 querystring_attrs |-> <<>>]
          [] OTHER ->
                [model |-> None, model_cls |-> "A",
                 cancel_url_name |-> "listboard_url", cancel_url_attrs |-> <<>>,
                 next_url_name |-> "listboard_url", next_url_attrs |-> <<>>,
                 querystring_attrs |-> <<"id">>]]

\* attributes of the wrapper that are properties without a setter
ReadOnlyProperties == {"querystring", "history_url", "_meta"}

\* attributes __init__ assigns after wrap_me_with
WrittenLast == {"get_absolute_url", "admin_url_name", "href"}

\* mutant: the double-wrap check runs even under force_wrap
ChecksDoubleWrap_Always(args) == TRUE

\* `if not force_wrap:` - whether __init__ runs the double-wrap check
ChecksDoubleWrap(args) == ~args.force_wrap

\* _raise_if_model_obj_is_wrapped: TRUE when it raises.  No `wrapped`
\* attribute: AttributeError, passed over; wrapped falsy: the assert holds.
RaiseIfModelObjIsWrapped(obj) == obj.wrapped = "True"

\* self.model_cls = model_cls or self.model_cls or self.object.__class__
EffectiveModelCls(args) ==
    Or(Or(args.model_cls, ClassAttrs[args.wrapper_cls].model_cls), ClassOf[args.model_obj])

\* self.model = model or self.model or self.model_cls._meta.label_lower
EffectiveModel(args) ==
    Or(Or(args.model, ClassAttrs[args.wrapper_cls].model), LabelLower[EffectiveModelCls(args)])

\* mutant: only the isinstance check, the label check left out
RaisesModelError_NoLabelCheck(args) ==
    ~IsInstance(args.model_obj, EffectiveModelCls(args))

\* the two checks that raise ModelWrapperModelError
RaisesModelError(args) ==
    \/ ~IsInstance(args.model_obj, EffectiveModelCls(args))
    \/ EffectiveModel(args) # LabelLower[EffectiveModelCls(args)]

\* self.next_url_name = next_url_name or self.next_url_name
EffectiveNextUrlName(args) == Or(args.next_url_name, ClassAttrs[args.wrapper_cls].next_url_name)

\* self.next_url_attrs = next_url_attrs or self.next_url_attrs
EffectiveNextUrlAttrs(args) == OrList(args.next_url_attrs, ClassAttrs[args.wrapper_cls].next_url_attrs)

\* self.cancel_url_name = cancel_url_name or self.cancel_url_name
EffectiveCancelUrlName(args) == Or(args.cancel_url_name, ClassAttrs[args.wrapper_cls].cancel_url_name)

\* mutant: cancel_url_attrs assigned outside the `if`
EffectiveCancelUrlAttrs_Unconditional(args) ==
    OrList(args.cancel_url_attrs, ClassAttrs[args.wrapper_cls].cancel_url_attrs)

\* cancel_url_attrs is assigned only under `if self.cancel_url_name:`
EffectiveCancelUrlAttrs(args) ==
    IF Truthy(EffectiveCancelUrlName(args))
    THEN OrList(args.cancel_url_attrs, ClassAttrs[args.wrapper_cls].cancel_url_attrs)
    ELSE ClassAttrs[args.wrapper_cls].cancel_url_attrs

\* self.querystring_attrs = querystring_attrs or self.querystring_attrs
EffectiveQuerystringAttrs(args) ==
    OrList(args.querystring_attrs, ClassAttrs[args.wrapper_cls].querystring_attrs)

\* mutant: an attribute the wrapper already has is not overwritten
WrapMeWith_KeepExisting(attrs, dct) ==
    LET settable == DOMAIN dct \ ReadOnlyProperties
    IN  [k \in DOMAIN attrs \cup settable |-> IF k \in DOMAIN attrs THEN attrs[k] ELSE dct[k]]

\* wrap_me_with(dct): setattr for every key, AttributeError (a property
\* without a setter) skipped
WrapMeWith(attrs, dct) ==
    LET settable == DOMAIN dct \ ReadOnlyProperties
    IN  [k \in DOMAIN attrs \cup settable |-> IF k \in settable THEN dct[k] ELSE attrs[k]]

\* the `next` segment of querystring
NextSegment(w) ==
    LET next_attrs == ParserQuerystring(w.next_url_attrs, w.attrs, w.object, w.kwargs)
    IN  IF next_attrs # <<>>
        THEN <<NextAttr, "=", w.next_url, ",">> \o next_attrs
        ELSE <<NextAttr, "=", w.next_url>>

\* the `cancel` segment of querystring, when self.cancel_url is truthy
CancelSegment(w) ==
    LET cancel_attrs == ParserQuerystring(w.cancel_url_attrs, w.attrs, w.object, w.kwargs)
    IN  IF cancel_attrs # <<>>
        THEN <<CancelAttr, "=", w.cancel_url, ",">> \o cancel_attrs
        ELSE <<w.cancel_url>>

\* the segments querystring joins
QuerystringSegments(w) ==
    <<NextSegment(w)>>
    \o (IF Truthy(w.cancel_url) THEN <<CancelSegment(w)>> ELSE <<>>)
    \o <<Urlencode(w.keywords)>>

\* ModelWrapper.querystring
Querystring(w) == Join(QuerystringSegments(w), "&")

\* self.href = f"{self.get_absolute_url()}?{self.querystring}"
Href(w) == <<AbsoluteUrl[w.object], "?">> \o Querystring(w)

\* mutant: save disabled, the wrapped flag not set
FlagAsWrapped_NoFlag(obj) == [obj EXCEPT !.save = None]

\* mutant: flagged as wrapped, save left enabled
FlagAsWrapped_KeepSave(obj) == [obj EXCEPT !.wrapped = "True"]

\* self.object.wrapped = True; self.object.save = None
FlagAsWrapped(obj) == [obj EXCEPT !.wrapped = "True", !.save = None]

(* ------------------------ constructor arguments ---------------------- *)

\* names an extra keyword argument may have: one that is also a model field,
\* one that is not, a read-only property, an attribute written last
KwargNames == {"subject_identifier", "visit_code", "querystring", "href"}

KwargValue == <<"kwarg_value">>

\* the **kwargs dictionaries
KwargsDicts ==
    UNION {[S -> {KwargValue}] : S \in {T \in SUBSET KwargNames : Cardinality(T) <= MaxKwargs}}

\* the arguments of ModelWrapper.__init__ (force_wrap FALSE: unset or falsy)
ArgSpace ==
    [wrapper_cls : WrapperClasses,
     model_obj : Objs,
     model : {None, "app.a", "app.suba"},
     model_cls : {None} \cup ModelClasses,
     cancel_url_name : {None, "listboard_url", "bad_url"},
     cancel_url_attrs : {<<>>, <<"subject_identifier">>},
     next_url_name : {None, "dashboard_url", "bad_url"},
     next_url_attrs : {<<>>, <<"subject_identifier">>},
     querystring_attrs : {<<>>, <<"subject_identifier">>},
     force_wrap : BOOLEAN,
     kwargs : KwargsDicts]

(* ------------------------- ModelWrapper.__init__ --------------------- *)

\* the attributes put on the wrapper, in the order __init__ puts them,
\* before href
AttrsBeforeHref(args) ==
    LET o == args.model_obj
        with_kwargs == WrapMeWith(<<>>, args.kwargs)
        with_fields == WrapMeWith(with_kwargs, ModelFields[o])
    IN  ("get_absolute_url" :> <<"get_absolute_url of", o>>)
        @@ ("admin_url_name" :> <<AdminUrlName[o]>>)
        @@ with_fields

\* the wrapper as it is when __init__ computes href
WrapperBeforeHref(args, next_url, cancel_url) ==
    [object |-> args.model_obj,
     kwargs |-> args.kwargs,
     model_cls |-> EffectiveModelCls(args),
     model_name |-> ModelName[EffectiveModelCls(args)],
     model |-> EffectiveModel(args),
     next_url_name |-> EffectiveNextUrlName(args),
     next_url_attrs |-> EffectiveNextUrlAttrs(args),
     next_url |-> next_url,
     cancel_url_name |-> EffectiveCancelUrlName(args),
     cancel_url |-> cancel_url,
     cancel_url_attrs |-> EffectiveCancelUrlAttrs(args),
     querystring_attrs |-> EffectiveQuerystringAttrs(args),
     keywords |-> Keywords(EffectiveQuerystringAttrs(args), <<>>, args.model_obj, args.kwargs),
     attrs |-> AttrsBeforeHref(args)]

\* mutant: href set only when no attribute of that name exists yet
SetHref_KeepExisting(w) == [w EXCEPT !.attrs = w.attrs @@ ("href" :> Href(w))]

\* self.href = ... overwrites whatever attribute of that name there is
SetHref(w) == [w EXCEPT !.attrs = ("href" :> Href(w)) @@ w.attrs]

\* __init__ as a function of its arguments, the model objects and the url
\* name registry: the exception it ends with ("" for none), the wrapper it
\* leaves and the model objects afterwards
Construct(args, objs, strict) ==
    LET o == args.model_obj
        fail(e) == [exc |-> e, wrapper |-> <<>>, objects |-> objs]
        next_get == UrlNamesGet(EffectiveNextUrlName(args), strict)
        cancel_get == IF Truthy(EffectiveCancelUrlName(args))
                      THEN UrlNamesGet(EffectiveCancelUrlName(args), strict)
                      ELSE [exc |-> "", value |-> None]
    IN  IF ChecksDoubleWrap(args) /\ RaiseIfModelObjIsWrapped(objs[o])
          THEN fail("ModelWrapperObjectAlreadyWrapped")
        ELSE IF RaisesModelError(args)
          THEN fail("ModelWrapperModelError")
        ELSE IF next_get.exc # ""
          THEN fail(next_get.exc)
        ELSE IF cancel_get.exc # ""
          THEN fail(cancel_get.exc)
        ELSE [exc |-> "",
              wrapper |-> <<SetHref(WrapperBeforeHref(args, next_get.value, cancel_get.value))>>,
              objects |-> [objs EXCEPT ![o] = FlagAsWrapped(@)]]

(* ------------------------------ the system --------------------------- *)

\* a model object as the ORM hands it over: no `wrapped` attribute, or one
\* its class defines as False; save is the model's method
FreshObjects == {[wrapped |-> "unset", save |-> "method"], [wrapped |-> "False", save |-> "method"]}

Init ==
    /\ objects \in [Objs -> FreshObjects]
    /\ call = <<>>
    /\ raised = ""
    /\ wrapper = <<>>
    /\ succeeded = {}
    /\ strictRegistry \in BOOLEAN

\* ModelWrapper(model_obj, ...) called with any arguments
ModelWrapperInit ==
    /\ call = <<>>
    /\ \E args \in ArgSpace :
          LET out == Construct(args, objects, strictRegistry)
          IN  /\ call' = <<args>>
              /\ raised' = out.exc
              /\ wrapper' = out.wrapper
              /\ objects' = out.objects
              /\ succeeded' = IF out.exc = "" THEN succeeded \cup {args.model_obj} ELSE succeeded
    /\ UNCHANGED strictRegistry

\* the request ends: the wrapper (or the exception) goes out of scope, the
\* model objects stay as they are
Release ==
    /\ call # <<>>
    /\ call' = <<>>
    /\ raised' = ""
    /\ wrapper' = <<>>
    /\ UNCHANGED <<objects, succeeded, strictRegistry>>

Next == ModelWrapperInit \/ Release

Spec == Init /\ [][Next]_vars

(* ------------------------------ properties --------------------------- *)

\* text starts with prefix
StartsWith(text, prefix) ==
    /\ Len(text) >= Len(prefix)
    /\ SubSeq(text, 1, Len(prefix)) = prefix

\* a constructor call has ended and is under observation
Called == call # <<>>

\* the constructor call ended without an exception
Constructed == wrapper # <<>>

\* a step that is one run of ModelWrapper.__init__
ConstructorStep == call = <<>> /\ call' # <<>>

C2_QuerystringShape ==
    (Constructed /\ Truthy(wrapper[1].cancel_url)) =>
        LET segs == QuerystringSegments(wrapper[1])
        IN  /\ Len(segs) = 3
            /\ StartsWith(segs[1], <<"next", "=">>)
            /\ StartsWith(segs[2], <<"cancel", "=">>)
            /\ segs[3] = Urlencode(wrapper[1].keywords)
            /\ Querystring(wrapper[1]) = segs[1] \o <<"&">> \o segs[2] \o <<"&">> \o segs[3]

\* C3: after a successful construction href is get_absolute_url(), "?" and
\* the querystring of the wrapper as it then is; the part after "?" starts
\* with next=<next_url>, followed by "," and the next attributes exactly
\* when the next-url parser yields a non-empty string.
C3_HrefContainsNext ==
    Constructed =>
        LET w == wrapper[1]
            href == w.attrs["href"]
            qs == SubSeq(href, 3, Len(href))
            next_attrs == ParserQuerystring(w.next_url_attrs, w.attrs, w.object, w.kwargs)
        IN  /\ href = <<AbsoluteUrl[call[1].model_obj], "?">> \o Querystring(w)
            /\ StartsWith(qs, <<"next", "=", w.next_url>>)
            /\ IF next_attrs # <<>>
               THEN StartsWith(qs, <<"next", "=", w.next_url, ",">> \o next_attrs)
               ELSE Len(qs) > 3 => qs[4] = "&"

\* a wrapper whose next url has attributes, on a model with a field named href
C3_Witness ==
    /\ Constructed
    /\ wrapper[1].next_url_attrs # <<>>
    /\ "href" \in DOMAIN ModelFields[call[1].model_obj]

\* the model class the claim names: argument, else class attribute, else the
\* object's own class
C4_ModelCls(a) ==
    IF Truthy(a.model_cls) THEN a.model_cls
    ELSE IF Truthy(ClassAttrs[a.wrapper_cls].model_cls) THEN ClassAttrs[a.wrapper_cls].model_cls
    ELSE ClassOf[a.model_obj]

\* the model label the claim names: argument, else class attribute, else the
\* model class's label_lower
C4_Model(a) ==
    IF Truthy(a.model) THEN a.model
    ELSE IF Truthy(ClassAttrs[a.wrapper_cls].model) THEN ClassAttrs[a.wrapper_cls].model
    ELSE LabelLower[C4_ModelCls(a)]

C4_WrongModel(a) ==
    \/ C4_ModelCls(a) \notin Mro[ClassOf[a.model_obj]]
    \/ C4_Model(a) # LabelLower[C4_ModelCls(a)]

\* C4: a construction on an object not yet wrapped raises
\* ModelWrapperModelError exactly when the object is no instance of the
\* effective model class or the effective label differs from that class's
\* label_lower.
C4_WrongModelRaises ==
    [][(ConstructorStep /\ objects[call'[1].model_obj].wrapped # "True")
       => (raised' = "ModelWrapperModelError" <=> C4_WrongModel(call'[1]))]_vars

\* a ModelWrapperModelError on an instance of the right class with the
\* wrong label
C4_Witness ==
    /\ Called
    /\ raised = "ModelWrapperModelError"
    /\ objects[call[1].model_obj].wrapped # "True"
    /\ C4_ModelCls(call[1]) \in Mro[ClassOf[call[1].model_obj]]

\* the constructor call got as far as looking up a url name the registry
\* does not hold
C5_UnresolvableName ==
    /\ Called
    /\ raised \notin {"ModelWrapperObjectAlreadyWrapped", "ModelWrapperModelError"}
    /\ LET a == call[1]
           next_name == Or(a.next_url_name, ClassAttrs[a.wrapper_cls].next_url_name)
           cancel_name == Or(a.cancel_url_name, ClassAttrs[a.wrapper_cls].cancel_url_name)
       IN  \/ next_name = "bad_url"
           \/ cancel_name = "bad_url"

\* C5: a construction whose next_url_name or cancel_url_name the registry
\* cannot resolve ends with ModelWrapperNoReverseMatch and leaves no wrapper.
C5_UnresolvableRaisesNoReverseMatch ==
    C5_UnresolvableName => (raised = "ModelWrapperNoReverseMatch" /\ ~Constructed)

\* C6: every object a construction has succeeded on has wrapped = True and
\* save = None, and keeps them through every later construction.
C6_WrappedInPlace ==
    \A o \in succeeded : objects[o].wrapped = "True" /\ objects[o].save = None

\* a construction was refused on an object wrapped earlier, which is still
\* flagged
C6_Witness ==
    /\ Called
    /\ ~Constructed
    /\ call[1].model_obj \in succeeded
    /\ objects[call[1].model_obj].wrapped = "True"

\* C7: kwargs first, then the field values, then get_absolute_url,
\* admin_url_name and href, the later writer winning; a kwarg or field named
\* like a read-only property is skipped and construction succeeds.
C7_AttributeOrder ==
    Constructed =>
        LET w == wrapper[1]
            a == call[1]
            fields == ModelFields[a.model_obj]
        IN  /\ \A k \in DOMAIN a.kwargs \cup DOMAIN fields :
                  IF k \in {"querystring", "history_url", "_meta"} THEN k \notin DOMAIN w.attrs
                  ELSE IF k \in {"get_absolute_url", "admin_url_name", "href"} THEN TRUE
                  ELSE IF k \in DOMAIN fields THEN w.attrs[k] = fields[k]
                  ELSE w.attrs[k] = a.kwargs[k]
            /\ w.attrs["get_absolute_url"] = <<"get_absolute_url of", a.model_obj>>
            /\ w.attrs["admin_url_name"] = <<AdminUrlName[a.model_obj]>>
            /\ Head(w.attrs["href"]) = AbsoluteUrl[a.model_obj]

\* a wrapper built with a kwarg that is also a field, on a model that has a
\* field named like a read-only property
C7_Witness ==
    /\ Constructed
    /\ "subject_identifier" \in DOMAIN call[1].kwargs
    /\ "history_url" \in DOMAIN ModelFields[call[1].model_obj]

\* C8: force_wrap on an object already wrapped never raises
\* ModelWrapperObjectAlreadyWrapped, a wrong-type object still raises
\* ModelWrapperModelError, and an object with no wrapped attribute or a
\* falsy one passes the double-wrap check with or without force_wrap.
C8_ForceWrapBypassesOnlyDoubleWrap ==
    [][ConstructorStep =>
        LET a == call'[1]
            was == objects[a.model_obj].wrapped
        IN  /\ (a.force_wrap /\ was = "True") =>
                  /\ raised' # "ModelWrapperObjectAlreadyWrapped"
                  /\ C4_WrongModel(a) => raised' = "ModelWrapperModelError"
            /\ was \in {"unset", "False"} => raised' # "ModelWrapperObjectAlreadyWrapped"]_vars

\* a forced construction on a wrapped object ended with ModelWrapperModelError
C8_Witness ==
    /\ Called
    /\ call[1].force_wrap
    /\ objects[call[1].model_obj].wrapped = "True"
    /\ call[1].model_obj \in succeeded
    /\ raised = "ModelWrapperModelError"

\* C9: with no truthy cancel_url_name (argument or class attribute)
\* cancel_url is None, a cancel_url_attrs argument is ignored and querystring
\* is the next segment, "&" and the url-encoded keywords; a truthy
\* next_url_name argument takes precedence over the class attribute.
C9_NoCancelUrlName ==
    Constructed =>
        LET w == wrapper[1]
            a == call[1]
            cattrs == ClassAttrs[a.wrapper_cls]
        IN  /\ (~Truthy(a.cancel_url_name) /\ ~Truthy(cattrs.cancel_url_name)) =>
                  /\ w.cancel_url = None
                  /\ w.cancel_url_attrs = cattrs.cancel_url_attrs
                  /\ Querystring(w) = NextSegment(w) \o <<"&">> \o Urlencode(w.keywords)
                  /\ \A i \in 1..Len(Querystring(w)) : Querystring(w)[i] # "cancel"
            /\ Truthy(a.next_url_name) =>
                  /\ w.next_url_name = a.next_url_name
                  /\ StartsWith(Querystring(w),
                                <<"next", "=", IF a.next_url_name \in DOMAIN Registry
                                               THEN Registry[a.next_url_name] ELSE None>>)

\* a wrapper without a cancel url name that was given cancel_url_attrs and a
\* next_url_name differing from its class's
C9_Witness ==
    /\ Constructed
    /\ ~Truthy(call[1].cancel_url_name)
    /\ call[1].wrapper_cls = "SubjectWrapper"
    /\ call[1].cancel_url_attrs # <<>>
    /\ Truthy(call[1].next_url_name)

====
